---- MODULE Spec2Model ----
(***************************************************************************)
(* A model of pygenetics: Population (population.py), Member (member.py)   *)
(* and the helpers of utils.py.  Parameter (parameter.py) is modelled from *)
(* its specification.  Objective values and parameter values are          *)
(* integers; fitness scores and cumulative probabilities are exact         *)
(* rationals <<numerator, denominator>> in lowest terms.  Where rounding    *)
(* matters they are also computed in a binary floating point of            *)
(* MantissaBits bits of significand.                                       *)
(***************************************************************************)
EXTENDS Integers, Sequences, FiniteSets, TLC

VARIABLES
    pop_size,       \* Population._pop_size
    num_processes,  \* Population._num_processes
    params,         \* Population._params: sequence of Parameter
    members,        \* Population._members: sequence of Member
    epoch,          \* parity of the number of member lists built so far
    had_members,    \* history: the member list has been non-empty at some time
    last_op,        \* the method called last
    last_result,    \* how the last call ended: "ok" or the exception raised
    warned,         \* the last call emitted a RuntimeWarning
    obj_called,     \* the last call called the objective function
    selected,       \* the last call built the CDF and entered selection
    args_in_range,  \* the last call was given no probability outside [0, 1]
    call            \* the last direct call of a function of utils.py

vars == <<pop_size, num_processes, params, members, epoch, had_members,
          last_op, last_result, warned, obj_called, selected, args_in_range, call>>

---------------------------------------------------------------------------
(* Bounds of the model *)

MaxPopSize == 2
\* at most this many distinct parameter vectors in a configuration
MaxVectors == 4
\* the objective values for which the fitness function is checked
MaxObjVal == 4
\* the longest list of members or of vectors given to a function of utils.py
MaxMembers == 3
\* the longest parameter vector given to a function of utils.py
MaxLen == 3
\* the bits of the significand of the floating-point numbers with which
\* calc_cdf_vals is computed as the machine computes it (a double has 53)
MantissaBits == 4

\* values of num_processes: 1 is sequential, 2 stands for every value > 1
ProcessCounts == {1, 2}

\* the values a parameter may take at all (unrestricted mutation included)
Values == -1 .. 2

\* the arguments given to add_param: (min_val, max_val, restrict)
ParamChoices ==
    { [min_val |-> 0,  max_val |-> 1, restrict |-> TRUE],
      [min_val |-> -1, max_val |-> 1, restrict |-> TRUE],
      [min_val |-> 0,  max_val |-> 2, restrict |-> FALSE] }

\* probabilities, in percent: the arguments p_crossover and p_mutation
CrossoverChoices == {-10, 0, 50, 100, 110}
MutationChoices == {-10, 0, 100, 110}

\* outcomes of uniform(0, 1), in percent: representatives of [0, 1)
UniformDraws == {0, 50, 99}

---------------------------------------------------------------------------
(* Exact rational arithmetic, standing for Python's float arithmetic *)

abs(x) == IF x < 0 THEN -x ELSE x

RECURSIVE GCD(_, _)
GCD(a, b) == IF b = 0 THEN a ELSE GCD(b, a % b)

Norm(q) ==
    LET s == IF q[2] < 0 THEN -1 ELSE 1
        g == GCD(abs(q[1]), abs(q[2]))
    IN  <<(s * q[1]) \div g, (s * q[2]) \div g>>

RAdd(x, y) == Norm(<<x[1] * y[2] + y[1] * x[2], x[2] * y[2]>>)
RDiv(x, y) == Norm(<<x[1] * y[2], x[2] * y[1]>>)
RLeq(x, y) == x[1] * y[2] <= y[1] * x[2]
RLess(x, y) == x[1] * y[2] < y[1] * x[2]

RECURSIVE RSum(_)
RSum(qs) == IF qs = <<>> THEN <<0, 1>> ELSE RAdd(Head(qs), RSum(Tail(qs)))

(* Floating-point arithmetic: every operation returns the exact result
   rounded to the nearest number with a significand of MantissaBits bits,
   ties to the even significand, as IEEE 754 does with 53 bits *)

RECURSIVE Pow2(_)
Pow2(n) == IF n = 0 THEN 1 ELSE 2 * Pow2(n - 1)

RMul2(q, e) == IF e >= 0 THEN Norm(<<q[1] * Pow2(e), q[2]>>)
               ELSE Norm(<<q[1], q[2] * Pow2(-e)>>)

\* the exponent e for which q / 2^e lies in [2^(MantissaBits-1), 2^MantissaBits)
RECURSIVE Exponent(_, _)
Exponent(q, e) ==
    IF RLess(RMul2(q, -e), <<Pow2(MantissaBits - 1), 1>>)
    THEN Exponent(q, e - 1)
    ELSE IF RLeq(<<Pow2(MantissaBits), 1>>, RMul2(q, -e))
         THEN Exponent(q, e + 1)
         ELSE e

\* the integer nearest to q >= 0, the even one of two equally near
RoundHalfEven(q) ==
    LET floor == q[1] \div q[2]
        twice == 2 * (q[1] - floor * q[2])
    IN  IF twice < q[2] THEN floor
        ELSE IF twice > q[2] THEN floor + 1
        ELSE IF floor % 2 = 0 THEN floor ELSE floor + 1

\* the floating-point number nearest to q >= 0
Fl(q) ==
    IF q[1] = 0 THEN <<0, 1>>
    ELSE LET e == Exponent(q, 0)
         IN  RMul2(<<RoundHalfEven(RMul2(q, -e)), 1>>, e)

\* sum() and += over floating-point numbers: qs[1] + ... + qs[k] from the left
RECURSIVE FlSumTo(_, _)
FlSumTo(qs, k) ==
    IF k = 0 THEN <<0, 1>> ELSE Fl(RAdd(FlSumTo(qs, k - 1), qs[k]))

RECURSIVE sum(_)
sum(xs) == IF xs = <<>> THEN 0 ELSE Head(xs) + sum(Tail(xs))

---------------------------------------------------------------------------
(* member.py *)

\* calc_fitness with abs() left out of the negative branch
calc_fitness_NoAbs(obj_fn_val) ==
    IF obj_fn_val >= 0
    THEN Norm(<<1, obj_fn_val + 1>>)
    ELSE <<1 + obj_fn_val, 1>>

\* Member.calc_fitness
calc_fitness(obj_fn_val) ==
    IF obj_fn_val >= 0
    THEN Norm(<<1, obj_fn_val + 1>>)
    ELSE <<1 + abs(obj_fn_val), 1>>

RAbs(q) == <<abs(q[1]), q[2]>>

\* calc_fitness with 1 / (1 + abs(ofv)) in the negative branch
calc_fitness_exact_Reciprocal(obj_fn_val) ==
    IF RLeq(<<0, 1>>, obj_fn_val)
    THEN RDiv(<<1, 1>>, RAdd(obj_fn_val, <<1, 1>>))
    ELSE RDiv(<<1, 1>>, RAdd(<<1, 1>>, RAbs(obj_fn_val)))

\* Member.calc_fitness of an objective value that is a fraction, in exact
\* arithmetic
calc_fitness_exact(obj_fn_val) ==
    IF RLeq(<<0, 1>>, obj_fn_val)
    THEN RDiv(<<1, 1>>, RAdd(obj_fn_val, <<1, 1>>))
    ELSE RAdd(<<1, 1>>, RAbs(obj_fn_val))

\* Member.calc_fitness as the machine computes it: obj_fn_val is a
\* floating-point number, and the sum and the quotient are rounded
calc_fitness_float(obj_fn_val) ==
    IF RLeq(<<0, 1>>, obj_fn_val)
    THEN Fl(RDiv(<<1, 1>>, Fl(RAdd(obj_fn_val, <<1, 1>>))))
    ELSE Fl(RAdd(<<1, 1>>, RAbs(obj_fn_val)))

\* Member.__init__; id is the identity of the object constructed: the epoch of
\* its list and its place in it, so that the members of one list and of the
\* list built before it are all different objects
Member(p, obj_fn_val, id) ==
    [params |-> p, obj_fn_val |-> obj_fn_val,
     fitness_score |-> calc_fitness(obj_fn_val), id |-> id]

---------------------------------------------------------------------------
(* utils.py *)

\* calc_cdf_vals without the division by fitness_sum
calc_cdf_vals_Unnormalised(ms) ==
    [k \in 1..Len(ms) |->
        RSum([i \in 1..k |-> ms[i].fitness_score])]

\* calc_cdf_vals: cumulative sums of fitness / fitness_sum, in member order
calc_cdf_vals(ms) ==
    LET fitness_sum == RSum([i \in 1..Len(ms) |-> ms[i].fitness_score])
        selection_probs ==
            [i \in 1..Len(ms) |-> RDiv(ms[i].fitness_score, fitness_sum)]
    IN  [k \in 1..Len(ms) |-> RSum(SubSeq(selection_probs, 1, k))]

\* calc_cdf_vals as the machine computes it: the fitness scores, their sum,
\* the quotients and the running sum are floating-point numbers
calc_cdf_vals_float(ms) ==
    LET fitness == [i \in 1 .. Len(ms) |-> Fl(ms[i].fitness_score)]
        fitness_sum == FlSumTo(fitness, Len(ms))
        selection_probs ==
            [i \in 1 .. Len(ms) |-> Fl(RDiv(fitness[i], fitness_sum))]
    IN  [k \in 1 .. Len(ms) |-> FlSumTo(selection_probs, k)]

\* the objective function of the tests: sum(params)
objective_fn(p) == sum(p)

\* call_obj_fn: (params, obj_fn(params, **obj_fn_args))
call_obj_fn(p) == <<p, objective_fn(p)>>

\* the loop of determine_best_member with >= in place of >
RECURSIVE BestFrom_LastOnTie(_, _, _)
BestFrom_LastOnTie(ms, i, best) ==
    IF i > Len(ms) THEN best
    ELSE IF RLeq(best[1], ms[i].fitness_score)
         THEN BestFrom_LastOnTie(ms, i + 1,
                  <<ms[i].fitness_score, ms[i].obj_fn_val, ms[i].params>>)
         ELSE BestFrom_LastOnTie(ms, i + 1, best)

\* determine_best_member: the first member of maximal fitness
RECURSIVE BestFrom(_, _, _)
BestFrom(ms, i, best) ==
    IF i > Len(ms) THEN best
    ELSE IF RLess(best[1], ms[i].fitness_score)
         THEN BestFrom(ms, i + 1,
                       <<ms[i].fitness_score, ms[i].obj_fn_val, ms[i].params>>)
         ELSE BestFrom(ms, i + 1, best)

determine_best_member(ms) ==
    BestFrom(ms, 2, <<ms[1].fitness_score, ms[1].obj_fn_val, ms[1].params>>)

\* bisect.bisect (bisect_right) as CPython computes it: binary search for the
\* 0-based insertion point to the right of every entry <= x
RECURSIVE BisectFrom(_, _, _, _)
BisectFrom(a, x, lo, hi) ==
    IF lo < hi
    THEN LET mid == (lo + hi) \div 2
         IN  IF RLess(x, a[mid + 1])
             THEN BisectFrom(a, x, lo, mid)
             ELSE BisectFrom(a, x, mid + 1, hi)
    ELSE lo

bisect(a, x) == BisectFrom(a, x, 0, Len(a))

---------------------------------------------------------------------------
(* parameter.py *)

\* Parameter.__init__
Parameter(min_val, max_val, restrict) ==
    [min_val |-> min_val, max_val |-> max_val, restrict |-> restrict,
     dtype |-> "int"]

\* Parameter.rand_val: randint(min_val, max_val), the possible outcomes
rand_val(P) == P.min_val .. P.max_val

\* int((max_val - min_val) * u) for u uniform in [0, 1)
MutationDeltas(P) ==
    IF P.max_val - P.min_val >= 1 THEN 0 .. (P.max_val - P.min_val - 1) ELSE {0}

Clamp(P, v) ==
    IF v > P.max_val THEN P.max_val
    ELSE IF v < P.min_val THEN P.min_val ELSE v

\* Parameter.mutate: value +/- delta, clamped when restrict; the possible
\* outcomes (kept within Values, the values the model follows)
mutate(P, value) ==
    { w \in { IF P.restrict THEN Clamp(P, value + s * d) ELSE value + s * d :
              s \in {1, -1}, d \in MutationDeltas(P) } : w \in Values }

---------------------------------------------------------------------------
(* utils.py, continued *)

\* one locus of mutate_params that is mutated whatever the draw
MutateLocus_Always(P, value, p_mutation) == mutate(P, value)

\* one locus of mutate_params that is never mutated
MutateLocus_Never(P, value, p_mutation) == {value}

\* one locus of mutate_params with uniform(0, 1) <= p_mutation as the test
MutateLocus_Inclusive(P, value, p_mutation) ==
    UNION { IF u <= p_mutation THEN mutate(P, value) ELSE {value} :
            u \in UniformDraws }

\* one locus of mutate_params: uniform(0, 1) < p_mutation mutates, else keeps
MutateLocus(P, value, p_mutation) ==
    UNION { IF u < p_mutation THEN mutate(P, value) ELSE {value} :
            u \in UniformDraws }

\* mutate_params: the possible results; new_params gets one entry per entry
\* of curr_params, in order, each drawn independently
RECURSIVE MutateFrom(_, _, _, _)
MutateFrom(curr_params, ps, p_mutation, idx) ==
    IF idx > Len(curr_params) THEN {<<>>}
    ELSE { <<w>> \o rest :
             w \in MutateLocus(ps[idx], curr_params[idx], p_mutation),
             rest \in MutateFrom(curr_params, ps, p_mutation, idx + 1) }

mutate_params(curr_params, ps, p_mutation) ==
    MutateFrom(curr_params, ps, p_mutation, 1)

\* whether some outcome of uniform(0, 1) makes mutate_params call
\* Parameter.mutate
MutateCalled(p_mutation) == \E u \in UniformDraws : u < p_mutation

\* mutate_params statement by statement on the lists it touches: curr_params
\* is read, new_params is the list appended to; the possible outcomes
RECURSIVE MutateLists(_, _, _, _)
MutateLists(lists, ps, p_mutation, idx) ==
    IF idx > Len(lists.curr_params) THEN {lists}
    ELSE UNION { MutateLists([lists EXCEPT !.new_params = Append(@, w)],
                             ps, p_mutation, idx + 1) :
                 w \in MutateLocus(ps[idx], lists.curr_params[idx],
                                   p_mutation) }

mutate_params_lists(curr_params, ps, p_mutation) ==
    MutateLists([curr_params |-> curr_params, new_params |-> <<>>],
                ps, p_mutation, 1)

\* randint(0, len(params_1) - 1) in place of randint(1, len(params_1) - 1)
CrossPoints_FromZero(params_1) == 0 .. (Len(params_1) - 1)

\* randint(1, len(params_1) - 1): the possible crossover points
CrossPoints(params_1) == 1 .. (Len(params_1) - 1)

\* perform_crossover statement by statement on the lists it touches: the
\* two argument lists and the two lists it builds.  A slice is a new list;
\* extend changes the list it is called on and no other.
perform_crossover_lists(params_1, params_2, cross_pt) ==
    LET lists0 == [params_1 |-> params_1, params_2 |-> params_2,
                   first_params |-> <<>>, second_params |-> <<>>]
        lists1 == [lists0 EXCEPT
                     !.first_params = SubSeq(lists0.params_1, 1, cross_pt)]
        lists2 == [lists1 EXCEPT
                     !.first_params = @ \o SubSeq(lists1.params_2, cross_pt + 1,
                                                  Len(lists1.params_2))]
        lists3 == [lists2 EXCEPT
                     !.second_params = SubSeq(lists2.params_2, 1, cross_pt)]
    IN  [lists3 EXCEPT
           !.second_params = @ \o SubSeq(lists3.params_1, cross_pt + 1,
                                         Len(lists3.params_1))]

\* perform_crossover without the two extend calls: the heads only
perform_crossover_HeadsOnly(params_1, params_2, cross_pt) ==
    << SubSeq(params_1, 1, cross_pt), SubSeq(params_2, 1, cross_pt) >>

\* perform_crossover at crossover point cross_pt
perform_crossover(params_1, params_2, cross_pt) ==
    << SubSeq(params_1, 1, cross_pt)
           \o SubSeq(params_2, cross_pt + 1, Len(params_2)),
       SubSeq(params_2, 1, cross_pt)
           \o SubSeq(params_1, cross_pt + 1, Len(params_1)) >>

---------------------------------------------------------------------------
(* population.py: the aggregate accessors *)

NoData == [tag |-> "None"]
Value(v) == [tag |-> "value", val |-> v]
Raised(e) == [tag |-> "error", exc |-> e]

\* determine_best_member(self._members)[k]; members[0] of an empty list
\* raises IndexError
BestEntry(ms, k) ==
    IF Len(ms) = 0 THEN Raised("IndexError")
    ELSE Value(determine_best_member(ms)[k])

\* x / len(ms); division by zero raises ZeroDivisionError
DivideByLen(x, ms) ==
    IF Len(ms) = 0 THEN Raised("ZeroDivisionError")
    ELSE Value(RDiv(x, <<Len(ms), 1>>))

\* best_fitness without the check for an empty member list
best_fitness_Unguarded == BestEntry(members, 1)

best_fitness == IF Len(members) = 0 THEN NoData ELSE BestEntry(members, 1)

best_ret_val == IF Len(members) = 0 THEN NoData ELSE BestEntry(members, 2)

best_params == IF Len(members) = 0 THEN NoData ELSE BestEntry(members, 3)

average_fitness ==
    IF Len(members) = 0 THEN NoData
    ELSE DivideByLen(
             RSum([i \in 1 .. Len(members) |-> members[i].fitness_score]),
             members)

average_ret_val ==
    IF Len(members) = 0 THEN NoData
    ELSE DivideByLen(
             <<sum([i \in 1 .. Len(members) |-> members[i].obj_fn_val]), 1>>,
             members)

---------------------------------------------------------------------------
(* population.py: selection and the loop of next_generation *)

\* outcomes of random(): one representative of every interval between two
\* consecutive entries of cdf_vals within [0, 1), and every entry below 1
RandomDraws(cdf_vals) ==
    LET below(k) == IF k = 1 THEN <<0, 1>> ELSE cdf_vals[k - 1]
        inside == { r \in { below(k) : k \in 1 .. Len(cdf_vals) }
                          \cup { cdf_vals[k] : k \in 1 .. Len(cdf_vals) }
                          \cup { RDiv(RAdd(below(k), cdf_vals[k]), <<2, 1>>) :
                                 k \in 1 .. Len(cdf_vals) } :
                    RLeq(<<0, 1>>, r) /\ RLess(r, <<1, 1>>) }
    IN  inside \cup {<<0, 1>>}

\* bisect(cdf_vals, random()): the 0-based indices selection can produce
SelectedIndices(ms) ==
    LET cdf_vals == calc_cdf_vals(ms)
    IN  { bisect(cdf_vals, r) : r \in RandomDraws(cdf_vals) }

\* the draw uniform(0, 1) < p_crossover made whatever len(params) is
CrossoverDecisions_AnyLength(ps, p_crossover) ==
    { u < p_crossover : u \in UniformDraws }

\* the draw uniform(0, 1) < p_crossover is made only when len(params) > 1
CrossoverDecisions(ps, p_crossover) ==
    IF Len(ps) > 1 THEN { u < p_crossover : u \in UniformDraws } ELSE {FALSE}

SameMember_Never(a, b) == FALSE

\* chosen_member == mate: Member defines no __eq__, so == is object identity
SameMember(a, b) == a.id = b.id

\* one iteration of the while loop: the member chosen, the mate found by
\* resampling until it is another object, the crossover point, and the one or
\* two mutated vectors appended to new_param_vals
LoopIterations(ms, ps, p_crossover, p_mutation) ==
    LET idxs == { i + 1 : i \in SelectedIndices(ms) }
        single ==
            IF FALSE \in CrossoverDecisions(ps, p_crossover)
            THEN { [chosen |-> c, mate |-> 0, cross_pt |-> 0, vecs |-> <<v>>] :
                     <<c, v>> \in
                       UNION { {c} \X mutate_params(ms[c].params, ps, p_mutation) :
                               c \in idxs } }
            ELSE {}
        crossed ==
            IF TRUE \in CrossoverDecisions(ps, p_crossover)
            THEN UNION {
                   LET c == t[1]
                       m == t[2]
                       k == t[3]
                       new_params == perform_crossover(ms[c].params,
                                                       ms[m].params, k)
                   IN  { [chosen |-> c, mate |-> m, cross_pt |-> k,
                          vecs |-> <<w[1], w[2]>>] :
                         w \in mutate_params(new_params[1], ps, p_mutation)
                               \X mutate_params(new_params[2], ps, p_mutation) }
                   : t \in { t \in idxs \X idxs \X CrossPoints(ps) :
                             ~SameMember(ms[t[1]], ms[t[2]]) } }
            ELSE {}
    IN  single \cup crossed

\* the while loop with len(new_param_vals) <= pop_size as its test
RECURSIVE BuildPools_ExtraIteration(_, _, _)
BuildPools_ExtraIteration(pools, appended, size) ==
    IF \A p \in pools : Len(p) > size THEN pools
    ELSE BuildPools_ExtraIteration(
             UNION { IF Len(p) > size THEN {p}
                     ELSE { p \o vecs : vecs \in appended } : p \in pools },
             appended, size)

\* the while loop: iterate until len(new_param_vals) >= pop_size; appended is
\* the set of vector lists one iteration can append
RECURSIVE BuildPools(_, _, _)
BuildPools(pools, appended, size) ==
    IF \A p \in pools : Len(p) >= size THEN pools
    ELSE BuildPools(
             UNION { IF Len(p) >= size THEN {p}
                     ELSE { p \o vecs : vecs \in appended } : p \in pools },
             appended, size)

\* the values new_param_vals can have when the while loop ends
NewParamVals(ms, ps, size, p_crossover, p_mutation) ==
    LET appended ==
            { it.vecs : it \in LoopIterations(ms, ps, p_crossover, p_mutation) }
    IN  BuildPools({<<>>}, appended, size)

---------------------------------------------------------------------------
(* population.py: the evaluation of a list of vectors *)

\* num_processes = 1: call_obj_fn is called for every vector in order and its
\* result appended
SequentialResults(vals) == [i \in 1 .. Len(vals) |-> call_obj_fn(vals[i])]

\* num_processes > 1: one apply_async task per vector; after close() and
\* join() every task has completed, in whatever order, and r.get() is read in
\* the order of submission
ParallelResults(vals) ==
    LET task(i) == call_obj_fn(vals[i])
    IN  [i \in 1 .. Len(vals) |-> task(i)]

\* the pool at work: the tasks complete one after the other in the order
\* given, each storing its own result in its own AsyncResult
RECURSIVE CompleteTasks(_, _, _, _)
CompleteTasks(done, vals, order, j) ==
    IF j > Len(order) THEN done
    ELSE CompleteTasks(
             [done EXCEPT ![order[j]] = call_obj_fn(vals[order[j]])],
             vals, order, j + 1)

\* the i-th vector paired with the value of the i-th task to complete
ParallelResultsIn_ByCompletion(vals, order) ==
    [i \in 1 .. Len(vals) |-> <<vals[i], objective_fn(vals[order[i]])>>]

\* num_processes > 1 with the completion order made explicit: after join()
\* every AsyncResult is set, and [r.get() for r in ...] reads them in the
\* order of submission
ParallelResultsIn(vals, order) ==
    LET pending == [i \in 1 .. Len(vals) |-> <<>>]
        done == CompleteTasks(pending, vals, order, 1)
    IN  [i \in 1 .. Len(vals) |-> done[i]]

\* how the evaluation of one of the vector lists in pools can end: the
\* objective function raises for one of the vectors (the exception leaves the
\* loop, or is raised again by r.get()), or every call returns
Evaluations(pools, processes) ==
    IF pools = {} THEN {}
    ELSE {[raises |-> TRUE, results |-> <<>>]}
             \cup { [raises |-> FALSE,
                     results |-> IF processes > 1 THEN ParallelResults(v)
                                 ELSE SequentialResults(v)] : v \in pools }

\* self._members.append(Member(result[0], result[1])) for every result
NewMembers(results, gen) ==
    [i \in 1 .. Len(results) |->
        Member(results[i][1], results[i][2], <<gen, i>>)]

---------------------------------------------------------------------------
(* population.py: the state machine *)

\* vectors sampled without regard to the parameters' bounds
SampledVectors_Unbounded(ps) == [1 .. Len(ps) -> Values]

\* the parameter vectors [p.rand_val for p in self._params] can produce
SampledVectors(ps) ==
    { v \in [1 .. Len(ps) -> Values] :
        \A i \in 1 .. Len(ps) : v[i] \in rand_val(ps[i]) }

\* the number of vectors a configuration can produce
ReachableValues(P) == IF P.restrict THEN rand_val(P) ELSE Values

RECURSIVE VectorCount(_)
VectorCount(ps) ==
    IF ps = <<>> THEN 1
    ELSE Cardinality(ReachableValues(Head(ps))) * VectorCount(Tail(ps))

\* no function of utils.py has been called directly
NoCall == [fn |-> "none"]

\* a probability, in percent, within [0, 1], the bounds 0 and 1 included
InRange(p) == 0 <= p /\ p <= 100

\* how a call ended
Finish(op, result, warning, called, sel, in_range) ==
    /\ last_op' = op
    /\ args_in_range' = in_range
    /\ call' = call
    /\ last_result' = result
    /\ warned' = warning
    /\ obj_called' = called
    /\ selected' = sel

\* Population.__init__ with a callable objective function and pop_size >= 2
Constructed ==
    /\ pop_size \in 2 .. MaxPopSize
    /\ num_processes \in ProcessCounts
    /\ params = <<>>
    /\ members = <<>>
    /\ epoch = 0
    /\ had_members = FALSE
    /\ last_op = "none"
    /\ last_result = "ok"
    /\ warned = FALSE
    /\ obj_called = FALSE
    /\ selected = FALSE
    /\ args_in_range = TRUE

Init == Constructed /\ call = NoCall

\* add_param: if len(self._members) > 0
PopulationCreated(ms) == Len(ms) > 0

\* Population.add_param
add_param(min_val, max_val, restrict) ==
    IF PopulationCreated(members)
    THEN /\ Finish("add_param", "RuntimeError", FALSE, FALSE, FALSE, TRUE)
         /\ UNCHANGED <<pop_size, num_processes, params, members, epoch,
                        had_members>>
    ELSE /\ VectorCount(Append(params, Parameter(min_val, max_val, restrict)))
                <= MaxVectors
         /\ params' = Append(params, Parameter(min_val, max_val, restrict))
         /\ Finish("add_param", "ok", FALSE, FALSE, FALSE, TRUE)
         /\ UNCHANGED <<pop_size, num_processes, members, epoch, had_members>>

\* initialize without the check for an empty parameter list
NoParameters_Unchecked(ps) == FALSE

\* initialize: if len(self._params) == 0
NoParameters(ps) == Len(ps) = 0

\* initialize without self._members = []: the new members are appended to
\* the list the population already holds
InitializedMembers_Append(ev) ==
    IF ev.raises THEN members
    ELSE members \o NewMembers(ev.results, 1 - epoch)

\* initialize: self._members = [] runs before the evaluation, so an exception
\* of the objective function leaves the method with the member list emptied;
\* else the new members are appended to the emptied list
InitializedMembers(ev) ==
    IF ev.raises THEN <<>>
    ELSE <<>> \o NewMembers(ev.results, 1 - epoch)

\* Population.initialize
initialize ==
    IF NoParameters(params)
    THEN /\ Finish("initialize", "RuntimeError", FALSE, FALSE, FALSE, TRUE)
         /\ UNCHANGED <<pop_size, num_processes, params, members, epoch,
                        had_members>>
    ELSE /\ \E ev \in Evaluations([1 .. pop_size -> SampledVectors(params)],
                                  num_processes) :
              /\ members' = InitializedMembers(ev)
              /\ epoch' = IF ev.raises THEN epoch ELSE 1 - epoch
              /\ had_members' = (had_members \/ ~ev.raises)
              /\ Finish("initialize",
                        IF ev.raises THEN "ObjFnError" ELSE "ok",
                        Len(members) > 0, TRUE, FALSE, TRUE)
         /\ UNCHANGED <<pop_size, num_processes, params>>

\* the checks of next_generation with the wrong exception for a population
\* that was never initialized
ArgumentError_WrongException(ms, p_crossover, p_mutation) ==
    IF Len(ms) = 0 THEN "ValueError"
    ELSE IF p_crossover < 0 \/ p_crossover > 100 THEN "ValueError"
    ELSE IF p_mutation < 0 \/ p_mutation > 100 THEN "ValueError"
    ELSE "none"

\* the checks of next_generation with the upper bounds excluded
ArgumentError_ExclusiveUpper(ms, p_crossover, p_mutation) ==
    IF Len(ms) = 0 THEN "RuntimeError"
    ELSE IF p_crossover < 0 \/ p_crossover >= 100 THEN "ValueError"
    ELSE IF p_mutation < 0 \/ p_mutation >= 100 THEN "ValueError"
    ELSE "none"

\* next_generation: the checks made before anything else: "none" when all pass
ArgumentError(ms, p_crossover, p_mutation) ==
    IF Len(ms) = 0 THEN "RuntimeError"
    ELSE IF p_crossover < 0 \/ p_crossover > 100 THEN "ValueError"
    ELSE IF p_mutation < 0 \/ p_mutation > 100 THEN "ValueError"
    ELSE "none"

\* next_generation with self._members = [] moved before the evaluation
NextMembers_ResetFirst(ev) ==
    IF ev.raises THEN <<>>
    ELSE <<>> \o NewMembers(ev.results, 1 - epoch)

\* next_generation: self._members is assigned only after the evaluation, so
\* an exception of the objective function leaves the method before it
NextMembers(ev) ==
    IF ev.raises THEN members
    ELSE <<>> \o NewMembers(ev.results, 1 - epoch)

\* Population.next_generation
next_generation(p_crossover, p_mutation) ==
    IF ArgumentError(members, p_crossover, p_mutation) # "none"
    THEN /\ Finish("next_generation",
                   ArgumentError(members, p_crossover, p_mutation),
                   FALSE, FALSE, FALSE,
                   InRange(p_crossover) /\ InRange(p_mutation))
         /\ UNCHANGED <<pop_size, num_processes, params, members, epoch,
                        had_members>>
    ELSE /\ \E ev \in Evaluations(NewParamVals(members, params, pop_size,
                                               p_crossover, p_mutation),
                                  num_processes) :
              /\ members' = NextMembers(ev)
              /\ epoch' = IF ev.raises THEN epoch ELSE 1 - epoch
              /\ Finish("next_generation",
                        IF ev.raises THEN "ObjFnError" ELSE "ok",
                        FALSE, TRUE, TRUE,
                        InRange(p_crossover) /\ InRange(p_mutation))
         /\ UNCHANGED <<pop_size, num_processes, params, had_members>>

AddParam == \E c \in ParamChoices : add_param(c.min_val, c.max_val, c.restrict)

Initialize == initialize

NextGeneration ==
    \E p_crossover \in CrossoverChoices, p_mutation \in MutationChoices :
        next_generation(p_crossover, p_mutation)

Next == AddParam \/ Initialize \/ NextGeneration

Spec == Init /\ [][Next]_vars

---------------------------------------------------------------------------
(* The minimisation of sum(params) over integer parameters bounded below by *)
(* 0, as test_pop_next_generation runs it: the objective function never     *)
(* raises, and next_generation is called again and again.                   *)

\* the parameters of the minimisation: integers from 0, mutation restricted
MinimisedChoices == { [min_val |-> 0, max_val |-> 2, restrict |-> TRUE] }

Configure ==
    \E c \in MinimisedChoices : add_param(c.min_val, c.max_val, c.restrict)

\* the objective function sum(params) returns for every vector
Populate == initialize /\ last_result' # "ObjFnError"

Evolve(p_crossover, p_mutation) ==
    next_generation(p_crossover, p_mutation) /\ last_result' # "ObjFnError"

Advance ==
    \E p_crossover \in CrossoverChoices, p_mutation \in MutationChoices :
        Evolve(p_crossover, p_mutation)

\* a call of next_generation with nonzero mutation probability can draw, in
\* one iteration of its loop, a vector of objective value at most k
CanImprove(k) ==
    /\ Len(members) > 0
    /\ \E p_crossover \in CrossoverChoices, p_mutation \in MutationChoices :
          /\ InRange(p_crossover) /\ InRange(p_mutation) /\ p_mutation > 0
          /\ \E it \in LoopIterations(members, params, p_crossover, p_mutation) :
                \E j \in 1 .. Len(it.vecs) : objective_fn(it.vecs[j]) <= k

\* a generation was made that holds a member of objective value at most k
Improved(k) ==
    /\ last_op' = "next_generation"
    /\ last_result' = "ok"
    /\ \E i \in 1 .. Len(members') : members'[i].obj_fn_val <= k

\* the objective values below the largest value of a minimised parameter
Levels ==
    { k \in Values : k >= 0 /\ \E c \in MinimisedChoices : k < c.max_val }

MinimiseNext == Configure \/ Populate \/ Advance

\* the methods are called again and again, and an outcome of the random
\* draws of next_generation that is possible again and again happens at some
\* time: strong fairness of the generations reaching level k, their enabling
\* condition written out as CanImprove(k)
MinimiseSpec ==
    /\ Init
    /\ [][MinimiseNext]_vars
    /\ WF_vars(MinimiseNext)
    /\ \A k \in Levels : []<>CanImprove(k) => []<><<Improved(k)>>_vars

---------------------------------------------------------------------------
(* utils.py and the evaluation called directly, on inputs of every shape *)

\* the state machine is left as constructed
PopulationUntouched ==
    UNCHANGED <<pop_size, num_processes, params, members, epoch, had_members,
                last_op, last_result, warned, obj_called, selected,
                args_in_range>>

\* the vectors of n entries
Vectors(n) == [1 .. n -> Values]

\* the lists of one-entry vectors handed to an evaluation
VectorLists == UNION { [1 .. m -> Vectors(1)] : m \in 1 .. MaxMembers }

\* a call about to be made: the function and its arguments
Request(fn, args) == [fn |-> fn, args |-> args, done |-> FALSE]

\* a call made: the function, its arguments and what it returned
Returned(result) ==
    [fn |-> call.fn, args |-> call.args, done |-> TRUE, result |-> result]

Requested(fn) == call.fn = fn /\ ~call.done

\* the arguments of an evaluation: a list of vectors and the order in which
\* the tasks of the pool complete
EvaluateRequests ==
    UNION { { Request("evaluate", [vals |-> vals, order |-> order]) :
              order \in Permutations(1 .. Len(vals)) } : vals \in VectorLists }

\* one list of vectors evaluated sequentially and by the pool
Evaluate ==
    /\ Requested("evaluate")
    /\ call' = Returned(
           [sequential |-> SequentialResults(call.args.vals),
            parallel |-> ParallelResultsIn(call.args.vals, call.args.order)])
    /\ PopulationUntouched

\* the arguments of perform_crossover: two vectors of equal length of two
\* entries or more
CrossoverRequestsOf(n) ==
    UNION { { Request("perform_crossover",
                      [params_1 |-> a, params_2 |-> b, cross_pt |-> k]) :
              b \in [1 .. n -> {1, 2}], k \in CrossPoints(a) } :
            a \in [1 .. n -> {0, 1}] }

CrossoverRequests == UNION { CrossoverRequestsOf(n) : n \in 2 .. MaxLen }

PerformCrossover ==
    /\ Requested("perform_crossover")
    /\ call' = Returned(
           [value |-> perform_crossover(call.args.params_1, call.args.params_2,
                                        call.args.cross_pt),
            lists |-> perform_crossover_lists(call.args.params_1,
                                              call.args.params_2,
                                              call.args.cross_pt)])
    /\ PopulationUntouched

\* the lists of n parameters
ParameterLists(n) ==
    [1 .. n -> { Parameter(c.min_val, c.max_val, c.restrict) :
                 c \in ParamChoices }]

\* the arguments of mutate_params: a vector, one parameter per entry, and a
\* probability within [0, 1]
MutateRequestsOf(n) ==
    { Request("mutate_params",
              [curr_params |-> v, params |-> ps, p_mutation |-> p]) :
      v \in Vectors(n), ps \in ParameterLists(n),
      p \in { q \in MutationChoices : InRange(q) } }

MutateRequests == MutateRequestsOf(1) \cup MutateRequestsOf(2)

MutateParams ==
    /\ Requested("mutate_params")
    /\ call' = Returned(
           [values |-> mutate_params(call.args.curr_params, call.args.params,
                                     call.args.p_mutation),
            lists |-> mutate_params_lists(call.args.curr_params,
                                          call.args.params,
                                          call.args.p_mutation),
            mutate_called |-> MutateCalled(call.args.p_mutation)])
    /\ PopulationUntouched

\* the member lists given to determine_best_member and calc_cdf_vals: up to
\* MaxMembers members of any objective values, member i with a vector of its
\* own; and the list of the tests
MemberLists ==
    UNION { { [i \in 1 .. n |-> Member(<<i, f[i] - i>>, f[i], <<0, i>>)] :
              f \in [1 .. n -> Values] } : n \in 1 .. MaxMembers }
        \cup { << Member(<<0, 0, 0>>, 0, <<0, 1>>),
                  Member(<<1, 1, 1>>, 1, <<0, 2>>),
                  Member(<<2, 2, 2>>, 2, <<0, 3>>) >> }

BestMemberRequests ==
    { Request("determine_best_member", [members |-> ms]) : ms \in MemberLists }

DetermineBestMember ==
    /\ Requested("determine_best_member")
    /\ call' = Returned(determine_best_member(call.args.members))
    /\ PopulationUntouched

CdfRequests ==
    { Request("calc_cdf_vals", [members |-> ms]) : ms \in MemberLists }

CalcCdfVals ==
    /\ Requested("calc_cdf_vals")
    /\ call' = Returned([exact |-> calc_cdf_vals(call.args.members),
                         float |-> calc_cdf_vals_float(call.args.members)])
    /\ PopulationUntouched

\* the objective values given to calc_fitness: zero and the floating-point
\* numbers of either sign from 2^-(MantissaBits + 2) up to 2^(MantissaBits + 1),
\* which has the integers up to 2^MantissaBits and fractions too small to
\* change 1 when added to it
ObjectiveFloats ==
    {<<0, 1>>} \cup
    UNION { { RMul2(<<s * m, 1>>, e) :
              m \in Pow2(MantissaBits - 1) .. Pow2(MantissaBits) - 1,
              s \in {1, -1} } :
            e \in -(2 * MantissaBits + 1) .. 1 }

FitnessRequests ==
    { Request("calc_fitness", [obj_fn_val |-> v]) : v \in ObjectiveFloats }

CalcFitness ==
    /\ Requested("calc_fitness")
    /\ call' = Returned([exact |-> calc_fitness_exact(call.args.obj_fn_val),
                         float |-> calc_fitness_float(call.args.obj_fn_val)])
    /\ PopulationUntouched

\* bisect(cdf_vals, random()) of next_generation: cdf_vals as calc_cdf_vals
\* returns it, in exact arithmetic and in floating point, and a draw of [0, 1)
BisectRequests ==
    UNION { UNION { { Request("bisect", [members |-> ms, cdf_vals |-> c, r |-> r]) :
                      r \in RandomDraws(c) } :
                    c \in {calc_cdf_vals(ms), calc_cdf_vals_float(ms)} } :
            ms \in MemberLists }

Bisect ==
    /\ Requested("bisect")
    /\ call' = Returned(bisect(call.args.cdf_vals, call.args.r))
    /\ PopulationUntouched

Requests ==
    EvaluateRequests \cup CrossoverRequests \cup MutateRequests
        \cup BestMemberRequests \cup CdfRequests \cup BisectRequests
        \cup FitnessRequests

UtilsInit ==
    /\ Constructed
    /\ pop_size = MaxPopSize
    /\ num_processes = 1
    /\ call \in Requests

UtilsNext ==
    \/ Evaluate
    \/ PerformCrossover
    \/ MutateParams
    \/ DetermineBestMember
    \/ CalcCdfVals
    \/ Bisect
    \/ CalcFitness

UtilsSpec == UtilsInit /\ [][UtilsNext]_vars

---------------------------------------------------------------------------
(* The while loop of next_generation, statement by statement, on a given    *)
(* member list: the call's position is call.at, and the draws of random()   *)
(* and uniform(0, 1) are fair.                                              *)

\* objective values whose fitness is so large that the weight of a member of
\* fitness at most 1 is lost when it is added to 1
DominantValues == { -Pow2(MantissaBits + 1) }

\* member lists of an initialized population: pop_size or pop_size + 1
\* members, of ordinary and of dominant objective values
LoopMemberLists ==
    UNION { { [i \in 1 .. n |-> Member(<<i, f[i]>>, f[i], <<0, i>>)] :
              f \in [1 .. n -> DominantValues \cup {0, 2}] } :
            n \in MaxPopSize .. MaxPopSize + 1 }

\* next_generation called: the checks passed, cdf_vals computed (exactly, or
\* as the machine computes it), new_param_vals empty
LoopCallsOn(ms) ==
    { [fn |-> "next_generation",
       args |-> [members |-> ms, cdf_vals |-> c,
                 params |-> [i \in 1 .. n |-> Parameter(0, 1, TRUE)],
                 p_crossover |-> p],
       done |-> FALSE, at |-> "while", chosen |-> 0, mate |-> 0,
       new_param_vals |-> 0, iterations |-> 0] :
      n \in 1 .. 2,
      c \in {calc_cdf_vals(ms), calc_cdf_vals_float(ms)},
      p \in { q \in CrossoverChoices : InRange(q) } }

LoopCalls == UNION { LoopCallsOn(ms) : ms \in LoopMemberLists }

At(label) == call.fn = "next_generation" /\ ~call.done /\ call.at = label

\* self._members[bisect(cdf_vals, random())]: the 1-based place of the member,
\* or 0 when the index is past the end of the list (IndexError)
Drawn(r) ==
    LET i == bisect(call.args.cdf_vals, r)
    IN  IF i < Len(call.args.members) THEN i + 1 ELSE 0

\* while len(new_param_vals) < self._pop_size
WhileTest ==
    /\ At("while")
    /\ call' = [call EXCEPT !.at = IF call.new_param_vals < pop_size
                                   THEN "choose" ELSE "evaluate"]
    /\ PopulationUntouched

\* chosen_member = self._members[bisect(cdf_vals, random())]
Choose ==
    /\ At("choose")
    /\ \E r \in RandomDraws(call.args.cdf_vals) :
          call' = IF Drawn(r) = 0
                  THEN [call EXCEPT !.at = "IndexError", !.done = TRUE]
                  ELSE [call EXCEPT !.chosen = Drawn(r), !.at = "if"]
    /\ PopulationUntouched

\* if len(self._params) > 1 and uniform(0, 1) < p_crossover; the else branch
\* appends one vector
IfCrossover ==
    /\ At("if")
    /\ \E crossover \in CrossoverDecisions(call.args.params,
                                            call.args.p_crossover) :
          call' = IF crossover
                  THEN [call EXCEPT !.at = "mate"]
                  ELSE [call EXCEPT !.at = "while",
                                    !.new_param_vals = @ + 1,
                                    !.iterations = @ + 1]
    /\ PopulationUntouched

\* mate = self._members[bisect(cdf_vals, random())], before and inside the
\* resampling loop
DrawMate ==
    /\ At("mate")
    /\ \E r \in RandomDraws(call.args.cdf_vals) :
          call' = IF Drawn(r) = 0
                  THEN [call EXCEPT !.at = "IndexError", !.done = TRUE]
                  ELSE [call EXCEPT !.mate = Drawn(r), !.at = "compare"]
    /\ PopulationUntouched

\* while chosen_member == mate; past the loop the crossover appends two
\* vectors
Compare ==
    /\ At("compare")
    /\ call' = IF SameMember(call.args.members[call.chosen],
                             call.args.members[call.mate])
               THEN [call EXCEPT !.at = "mate"]
               ELSE [call EXCEPT !.at = "while",
                                 !.new_param_vals = @ + 2,
                                 !.iterations = @ + 1]
    /\ PopulationUntouched

\* the evaluation of new_param_vals by an objective function that returns,
\* and the commit
EvaluateAndCommit ==
    /\ At("evaluate")
    /\ call' = [call EXCEPT !.at = "returned", !.done = TRUE]
    /\ PopulationUntouched

\* some draw of random() selects another member than the chosen one
CanDrawAnotherMember ==
    /\ At("mate")
    /\ \E r \in RandomDraws(call.args.cdf_vals) :
          Drawn(r) # 0 /\ Drawn(r) # call.chosen

\* another member than the chosen one has been drawn as the mate
DrewAnotherMember ==
    /\ call.at = "mate"
    /\ call'.at = "compare" /\ call'.mate # call.chosen

LoopInit ==
    /\ Constructed
    /\ pop_size = MaxPopSize
    /\ num_processes = 1
    /\ call \in LoopCalls

LoopNext ==
    \/ WhileTest
    \/ Choose
    \/ IfCrossover
    \/ DrawMate
    \/ Compare
    \/ EvaluateAndCommit

\* the call goes on: no statement is waited at for ever (the two draws have
\* their weak fairness written out, <>[]ENABLED <<A>>_vars => []<><<A>>_vars,
\* a draw being possible wherever the call is at one)
LoopProgress ==
    /\ WF_vars(WhileTest)
    /\ WF_vars(IfCrossover)
    /\ WF_vars(Compare)
    /\ WF_vars(EvaluateAndCommit)
    /\ <>[]At("choose") => []<><<Choose>>_vars
    /\ <>[]At("mate") => []<><<DrawMate>>_vars

\* the draws are fair: a mate that can be drawn again and again is drawn
FairDraws == []<>CanDrawAnotherMember => []<><<DrewAnotherMember>>_vars

LoopSpec == LoopInit /\ [][LoopNext]_vars /\ LoopProgress /\ FairDraws

---------------------------------------------------------------------------
(* Claims *)

\* what the method called last was, for the step that called it
Step(op) == last_op' = op

\* C1: in every reachable state the member list has length 0 or exactly
\* pop_size (stated as claimed; the loop of next_generation appends two
\* vectors when one slot is left, so a list of pop_size + 1 members arises).
C1_LengthZeroOrPopSize == Len(members) = 0 \/ Len(members) = pop_size

\* C2: when the objective function raises during next_generation, the error
\* reaches the caller and the member list is the list held before the call.
C2_NextGenerationFailureKeepsMembers ==
    [][(Step("next_generation") /\ obj_called')
          => /\ last_result' \in {"ok", "ObjFnError"}
             /\ (last_result' = "ObjFnError" => members' = members)
             /\ (members' # members => last_result' = "ok")]_vars

C2_Witness ==
    /\ last_op = "next_generation"
    /\ last_result = "ObjFnError"
    /\ num_processes > 1
    /\ Len(members) >= pop_size

\* C3: when the objective function raises during initialize(), the member
\* list is left at its value before the call (stated as claimed; a
\* re-invoked initialize() has emptied the list before it evaluates).
C3_InitializeFailureKeepsMembers ==
    [][(Step("initialize") /\ last_result' = "ObjFnError")
          => members' = members]_vars

\* C4: add_param on an Initialized population fails with RuntimeError and
\* changes neither list, and the parameter list never changes once a member
\* has existed (stated as claimed; after a failed re-initialization the list
\* is empty again and add_param succeeds).
C4_ParametersFrozenOnceMembersExist ==
    [][/\ (Step("add_param") /\ Len(members) > 0)
            => /\ last_result' = "RuntimeError"
               /\ params' = params
               /\ members' = members
       /\ had_members => params' = params]_vars

\* C5 as claimed: next_generation without members fails with RuntimeError,
\* calls no objective function and changes nothing, and a following
\* initialize() is not refused (it is, when no parameter was added).
C5_SequencingErrorRecoverable ==
    [][/\ (Step("next_generation") /\ Len(members) = 0)
            => /\ last_result' = "RuntimeError"
               /\ ~obj_called'
               /\ params' = params
               /\ members' = members
       /\ (Step("initialize") /\ Len(members) = 0
              /\ last_op = "next_generation" /\ last_result = "RuntimeError")
            => last_result' # "RuntimeError"]_vars

\* C5 as amended: next_generation without members fails with RuntimeError,
\* calls no objective function and changes nothing; once a parameter has been
\* added, initialize() is not refused and, when the objective function does
\* not raise, leaves pop_size members, on which next_generation is not refused
\* with a sequencing error.
C5_SequencingErrorRecoverableConfigured ==
    [][/\ (Step("next_generation") /\ Len(members) = 0)
            => /\ last_result' = "RuntimeError"
               /\ ~obj_called'
               /\ params' = params
               /\ members' = members
       /\ (Step("initialize") /\ Len(params) > 0)
            => /\ last_result' \in {"ok", "ObjFnError"}
               /\ (last_result' = "ok" => Len(members') = pop_size)
       /\ (Step("next_generation") /\ Len(members) > 0)
            => last_result' # "RuntimeError"]_vars

C5_Witness ==
    /\ last_op = "next_generation"
    /\ last_result = "RuntimeError"
    /\ ~obj_called
    /\ Len(params) > 0
    /\ members = <<>>

\* C6: next_generation on an Initialized population with a probability outside
\* [0, 1] fails with ValueError before any selection or objective-function
\* call and leaves the member list unchanged; every probability within
\* [0, 1], 0 and 1 themselves included, is accepted.
C6_ProbabilityOutOfRange ==
    [][(Step("next_generation") /\ Len(members) > 0)
          => /\ last_result' \in {"ValueError", "ok", "ObjFnError"}
             /\ (last_result' = "ValueError") <=> ~args_in_range'
             /\ last_result' = "ValueError"
                   => (~selected' /\ ~obj_called' /\ members' = members)
             /\ args_in_range' => (selected' /\ obj_called')]_vars

C6_Witness ==
    /\ last_op = "next_generation"
    /\ last_result = "ValueError"
    /\ ~args_in_range
    /\ Len(members) > 0

\* C7: initialize() without parameters fails with RuntimeError, calls no
\* objective function and leaves the population without parameters and
\* without members.
C7_InitializeWithoutParameters ==
    [][(Step("initialize") /\ Len(params) = 0)
          => /\ last_result' = "RuntimeError"
             /\ ~obj_called'
             /\ params' = <<>>
             /\ members = <<>>
             /\ members' = <<>>]_vars

C7_Witness ==
    /\ last_op = "initialize"
    /\ last_result = "RuntimeError"
    /\ params = <<>>
    /\ members = <<>>

\* C8: each of the five aggregate accessors returns None exactly when the
\* member list is empty, and a value, never an exception, otherwise.
IsNone(a) == a.tag = "None"
IsValue(a) == a.tag = "value"

C8_AccessorsNoDataIffEmpty ==
    /\ IsNone(best_fitness) <=> Len(members) = 0
    /\ IsNone(best_ret_val) <=> Len(members) = 0
    /\ IsNone(best_params) <=> Len(members) = 0
    /\ IsNone(average_fitness) <=> Len(members) = 0
    /\ IsNone(average_ret_val) <=> Len(members) = 0
    /\ Len(members) > 0 =>
         /\ IsValue(best_fitness)
         /\ IsValue(best_ret_val)
         /\ IsValue(best_params)
         /\ IsValue(average_fitness)
         /\ IsValue(average_ret_val)

C8_Witness ==
    /\ Len(members) > pop_size
    /\ best_fitness.tag = "value"
    /\ average_ret_val.tag = "value"

\* C9: initialize() re-invoked on an Initialized population, the objective
\* function not raising, ends without an exception and with a warning, and
\* leaves exactly pop_size newly sampled and evaluated members, none of them
\* an object of the previous list.
C9_ReinitializeOverwrites ==
    [][(Step("initialize") /\ Len(members) > 0 /\ last_result' # "ObjFnError")
          => /\ last_result' = "ok"
             /\ warned'
             /\ Len(members') = pop_size
             /\ \A i \in 1 .. Len(members') :
                  /\ members'[i].params \in SampledVectors(params)
                  /\ members'[i].obj_fn_val = objective_fn(members'[i].params)
                  /\ \A j \in 1 .. Len(members) :
                       members'[i].id # members[j].id]_vars

C9_Witness ==
    /\ last_op = "initialize"
    /\ last_result = "ok"
    /\ warned
    /\ Len(members) = pop_size

\* C10: fitness is 1/(1+v) in (0, 1] for v >= 0 and 1+|v| > 1 for v < 0, so
\* strictly positive, for every objective value v; and every member's fitness
\* is this function of its own obj_fn_val.
FitnessAsSpecified(v, f) ==
    /\ f[2] > 0
    /\ f[1] > 0
    /\ v >= 0 => (f[1] * (1 + v) = f[2] /\ f[1] <= f[2])
    /\ v < 0 => (f[1] = (1 - v) * f[2] /\ f[1] > f[2])

Count(s, x) == Cardinality({ i \in 1 .. Len(s) : s[i] = x })

\* the last direct call was of fn and has returned
Called(fn) == call.fn = fn /\ call.done

\* C11: for one list of vectors and a deterministic objective function, the
\* pool, in whatever order its tasks complete, yields one (vector, value)
\* pair per submitted vector and the same multiset of pairs as the
\* sequential evaluation; it is also the list the state machine uses.
C11_ParallelEqualsSequential ==
    Called("evaluate") =>
        LET vals == call.args.vals
            sequential == call.result.sequential
            parallel == call.result.parallel
        IN  /\ Len(parallel) = Len(vals)
            /\ Len(sequential) = Len(vals)
            /\ \A i \in 1 .. Len(vals) :
                 /\ Count(parallel, sequential[i])
                        = Count(sequential, sequential[i])
                 /\ Count(sequential, parallel[i])
                        = Count(parallel, parallel[i])
                 /\ Count(parallel, call_obj_fn(vals[i]))
                        = Count(vals, vals[i])
            /\ parallel = ParallelResults(vals)

C11_Witness ==
    /\ Called("evaluate")
    /\ Len(call.args.vals) = MaxMembers
    /\ call.args.order[1] = MaxMembers
    /\ call.args.vals[1] # call.args.vals[MaxMembers]
    /\ Count(call.result.parallel, call.result.sequential[1]) = 1

\* the minimum is found: the best member has objective value 0 and the
\* all-zero vector
Converged ==
    /\ Len(params) > 0
    /\ Len(members) > 0
    /\ best_ret_val = Value(0)
    /\ best_params = Value([i \in 1 .. Len(params) |-> 0])

C13_CrossoverExact ==
    Called("perform_crossover") =>
        LET A == call.args.params_1
            B == call.args.params_2
            k == call.args.cross_pt
            n == Len(A)
            first == call.result.value[1]
            second == call.result.value[2]
        IN  /\ 1 <= k /\ k <= n - 1
            /\ Len(first) = n /\ Len(second) = n
            /\ \A i \in 1 .. n :
                 /\ i <= k => (first[i] = A[i] /\ second[i] = B[i])
                 /\ i > k => (first[i] = B[i] /\ second[i] = A[i])
            /\ \E i, j \in 1 .. n :
                 /\ first[i] = A[i] /\ first[j] = B[j] /\ i # j
                 /\ second[i] = B[i] /\ second[j] = A[j]
            /\ call.result.lists.first_params = first
            /\ call.result.lists.second_params = second
            /\ call.result.lists.params_1 = A
            /\ call.result.lists.params_2 = B
            /\ (A = <<0, 0>> /\ B = <<1, 1>>)
                   => call.result.value = << <<0, 1>>, <<1, 0>> >>

C13_Witness ==
    /\ Called("perform_crossover")
    /\ call.args.params_1 = <<0, 0, 0>>
    /\ call.args.params_2 = <<1, 1, 1>>
    /\ call.args.cross_pt = 2
    /\ call.result.value = << <<0, 0, 1>>, <<1, 1, 0>> >>

\* C14: mutate_params with p_mutation = 0 returns, whatever the draws, a
\* vector equal to its input, calls no Parameter.mutate and leaves the input
\* vector as it was.
C14_NoMutationIsIdentity ==
    (Called("mutate_params") /\ call.args.p_mutation = 0) =>
        /\ call.result.values = {call.args.curr_params}
        /\ ~call.result.mutate_called
        /\ \A l \in call.result.lists :
             /\ l.new_params = call.args.curr_params
             /\ l.curr_params = call.args.curr_params

C14_Witness ==
    /\ Called("mutate_params")
    /\ call.args.p_mutation = 0
    /\ Len(call.args.curr_params) > 1
    /\ call.result.values = {call.args.curr_params}
    /\ mutate_params(call.args.curr_params, call.args.params, 100)
           # {call.args.curr_params}

\* C15: determine_best_member over a non-empty member list returns the
\* (fitness, objective value, params) triple of one member, whose fitness is
\* the maximum over the list and which is the earliest member of that
\* fitness; the list of the tests gives its first member.
C15_BestMemberIsEarliestMaximum ==
    Called("determine_best_member") =>
        LET ms == call.args.members
        IN  /\ \E j \in 1 .. Len(ms) :
                 /\ call.result
                        = <<ms[j].fitness_score, ms[j].obj_fn_val, ms[j].params>>
                 /\ \A i \in 1 .. Len(ms) :
                      RLeq(ms[i].fitness_score, ms[j].fitness_score)
                 /\ \A i \in 1 .. (j - 1) :
                      RLess(ms[i].fitness_score, ms[j].fitness_score)
            /\ \A i \in 1 .. Len(ms) :
                 RLeq(ms[i].fitness_score, call.result[1])
            /\ ms[1].params = <<0, 0, 0>>
                   => call.result = << <<1, 1>>, 0, <<0, 0, 0>> >>

C15_Witness ==
    /\ Called("determine_best_member")
    /\ Len(call.args.members) = MaxMembers
    /\ call.result[3] = call.args.members[2].params
    /\ call.args.members[MaxMembers].fitness_score = call.result[1]

\* the distance |x - y| of two rationals
RDist(x, y) ==
    LET d == x[1] * y[2] - y[1] * x[2]
    IN  Norm(<<IF d < 0 THEN -d ELSE d, x[2] * y[2]>>)

\* the sum of the first k normalized weights fitness_i / sum(fitness)
PartialWeight(ms, k) ==
    RDiv(RSum([i \in 1 .. k |-> ms[i].fitness_score]),
         RSum([i \in 1 .. Len(ms) |-> ms[i].fitness_score]))

\* the rounding error the k-th entry of n can have accumulated: the relative
\* error of one rounding, 2^-MantissaBits, for each rounded fitness score,
\* each of the n - 1 additions of the sum, the division, and each of the
\* k - 1 additions of the running sum
Tolerance(k, n) == <<n + k + 2, Pow2(MantissaBits)>>

PositiveFitnesses(ms) ==
    /\ Len(ms) > 0
    /\ \A i \in 1 .. Len(ms) : RLess(<<0, 1>>, ms[i].fitness_score)

\* C16 (as stated): for a non-empty member list with positive fitnesses the
\* sequence calc_cdf_vals returns has one entry per member, is non-decreasing,
\* has the sum of the normalized weights up to k as its k-th entry and ends
\* with exactly 1.  In floating-point arithmetic the entries are rounded and
\* the last one can miss 1.
C16_CdfEndsAtOne ==
    (Called("calc_cdf_vals") /\ PositiveFitnesses(call.args.members))
        => LET ms == call.args.members
               cdf == call.result.float
           IN  /\ Len(cdf) = Len(ms)
               /\ \A k \in 1 .. Len(ms) - 1 : RLeq(cdf[k], cdf[k + 1])
               /\ \A k \in 1 .. Len(ms) : cdf[k] = PartialWeight(ms, k)
               /\ cdf[Len(ms)] = <<1, 1>>

\* C16 (amended): the sequence has one entry per member and is non-decreasing;
\* its k-th entry is the sum of the normalized weights up to k, and its last
\* entry 1, within floating-point tolerance, and exactly so in exact
\* arithmetic.
C16_CdfEndsAtOneWithinTolerance ==
    (Called("calc_cdf_vals") /\ PositiveFitnesses(call.args.members))
        => LET ms == call.args.members
               cdf == call.result.float
               exact == call.result.exact
           IN  /\ Len(cdf) = Len(ms) /\ Len(exact) = Len(ms)
               /\ \A k \in 1 .. Len(ms) - 1 :
                     RLeq(cdf[k], cdf[k + 1]) /\ RLeq(exact[k], exact[k + 1])
               /\ \A k \in 1 .. Len(ms) :
                     /\ exact[k] = PartialWeight(ms, k)
                     /\ RLeq(RDist(cdf[k], PartialWeight(ms, k)),
                             Tolerance(k, Len(ms)))
               /\ exact[Len(ms)] = <<1, 1>>
               /\ RLeq(RDist(cdf[Len(ms)], <<1, 1>>),
                       Tolerance(Len(ms), Len(ms)))

C16_Witness ==
    /\ Called("calc_cdf_vals")
    /\ Len(call.args.members) = MaxMembers
    /\ PositiveFitnesses(call.args.members)
    /\ call.result.float[MaxMembers] # <<1, 1>>
    /\ call.result.exact[MaxMembers] = <<1, 1>>
    /\ RLess(call.result.exact[1], call.result.exact[2])

\* C17: selection with a draw r of [0, 1) returns the smallest index i with
\* cdf[i] >= r, also when r equals an entry of cdf, and the index returned is
\* a valid index of the member list.
C17_SelectsSmallestIndexAtOrAbove ==
    Called("bisect")
        => LET cdf == call.args.cdf_vals
               r == call.args.r
               i == call.result
           IN  /\ i \in 0 .. Len(call.args.members) - 1
               /\ RLeq(r, cdf[i + 1])
               /\ \A j \in 0 .. i - 1 : RLess(cdf[j + 1], r)

\* the iterations of the while loop that perform a crossover, were
\* next_generation called in the current state with p_crossover = 1, when every
\* iteration performs one; mutation plays no part in the choice of the parents
Crossovers ==
    { it \in LoopIterations(members, params, 100, 0) : it.mate # 0 }

\* C18: the two parents next_generation passes to perform_crossover are two
\* different entries of the member list, two different objects, also when
\* p_crossover = 1.
C18_ParentsAreDistinct ==
    Len(members) > 0
        => \A it \in Crossovers :
              /\ it.chosen \in 1 .. Len(members)
              /\ it.mate \in 1 .. Len(members)
              /\ it.chosen # it.mate
              /\ members[it.chosen].id # members[it.mate].id

C18_Witness ==
    /\ last_op = "next_generation" /\ last_result = "ok"
    /\ Len(params) > 1
    /\ \E it \in Crossovers :
          members[it.chosen].params = members[it.mate].params

AllRestricted == \A i \in 1 .. Len(params) : params[i].restrict

\* C19: when every parameter was added with restrict = true, in every state
\* reached by initialize and next_generation calls every member's value at
\* position i lies within [min_val, max_val] of the i-th parameter.
C19_RestrictedValuesStayInBounds ==
    AllRestricted
        => \A m \in 1 .. Len(members) :
              \A i \in 1 .. Len(members[m].params) :
                 /\ i <= Len(params)
                 /\ params[i].min_val <= members[m].params[i]
                 /\ members[m].params[i] <= params[i].max_val

\* after a next_generation, with a restricted parameter whose range mutation
\* can step across, one member sits on its lower and one on its upper bound
C19_Witness ==
    /\ last_op = "next_generation" /\ last_result = "ok"
    /\ AllRestricted
    /\ \E i \in 1 .. Len(params) :
          /\ params[i].max_val - params[i].min_val > 1
          /\ \E m \in 1 .. Len(members) :
                members[m].params[i] = params[i].max_val
          /\ \E m \in 1 .. Len(members) :
                members[m].params[i] = params[i].min_val

\* a vector with one entry per parameter added, the i-th a value of the i-th
FitsParameters(v) ==
    /\ Len(v) = Len(params)
    /\ \A i \in 1 .. Len(v) : v[i] \in ReachableValues(params[i])

\* the vectors a call made in the current state can give to the objective
\* function: those initialize samples, and those an iteration of the loop of
\* next_generation appends, with or without crossover and mutation
VectorsToEvaluate ==
    (IF NoParameters(params) THEN {} ELSE SampledVectors(params))
        \cup (IF Len(members) = 0 THEN {}
              ELSE UNION { { it.vecs[j] : j \in 1 .. Len(it.vecs) } :
                           it \in LoopIterations(members, params, 50, 0)
                                  \cup LoopIterations(members, params, 50, 100) })

\* C20: in every reachable state every member's parameter vector has as many
\* entries as parameters were added, and every vector initialize or
\* next_generation gives to the objective function has that length, its i-th
\* entry a value of the i-th parameter added.
C20_VectorsMatchParameters ==
    /\ \A m \in 1 .. Len(members) : FitsParameters(members[m].params)
    /\ \A v \in VectorsToEvaluate : FitsParameters(v)

\* after a next_generation over two parameters that can cross two members
\* over, with members of different first and different second entries
C20_Witness ==
    /\ last_op = "next_generation" /\ last_result = "ok" /\ obj_called
    /\ Len(params) = 2
    /\ \E it \in LoopIterations(members, params, 50, 100) : it.mate # 0
    /\ \E m, n \in 1 .. Len(members) :
          /\ members[m].params[1] # members[n].params[1]
          /\ members[m].params[2] # members[n].params[2]

\* C21 (as stated): the fitness is strictly decreasing in the objective value
\* over its whole domain: v1 < v2 gives fitness(v1) > fitness(v2), also for
\* v1 < 0 <= v2.  In floating point two objective values can share a fitness.
C21_FitnessStrictlyDecreasing ==
    Called("calc_fitness")
        => \A v2 \in ObjectiveFloats :
              RLess(call.args.obj_fn_val, v2)
                => RLess(calc_fitness_float(v2), call.result.float)

\* C21 (amended): v1 < v2 gives fitness(v1) >= fitness(v2) as computed, and
\* fitness(v1) > fitness(v2) in exact arithmetic, also for v1 < 0 <= v2.
C21_FitnessDecreasing ==
    Called("calc_fitness")
        => \A v2 \in ObjectiveFloats :
              RLess(call.args.obj_fn_val, v2)
                => /\ RLeq(calc_fitness_float(v2), call.result.float)
                   /\ RLess(calc_fitness_exact(v2), call.result.exact)

\* a negative objective value whose computed fitness is that of 0
C21_Witness ==
    /\ Called("calc_fitness")
    /\ RLess(call.args.obj_fn_val, <<0, 1>>)
    /\ call.result.float = calc_fitness_float(<<0, 1>>)
    /\ RLess(calc_fitness_exact(<<0, 1>>), call.result.exact)
    /\ \E v2 \in ObjectiveFloats :
          /\ RLess(<<0, 1>>, v2)
          /\ RLess(calc_fitness_float(v2), call.result.float)

\* what the iterations of the loop of a next_generation called in the current
\* state can append, each vector replaced by whether a crossover made it
\* (mutation changes the values of the vectors, not their number)
AppendedKinds ==
    { [j \in 1 .. Len(it.vecs) |-> it.mate # 0] :
      it \in LoopIterations(members, params, 50, 0) }

\* the lists new_param_vals the loop can end with, vectors replaced likewise
PoolKinds == BuildPools({<<>>}, AppendedKinds, pop_size)

\* the last iteration of the loop that built pool was a crossover, started
\* with exactly one slot left: the pool ends with the two vectors of one
\* crossover, and the pop_size - 1 vectors before them are whole iterations
EndsWithCrossover(pool) ==
    /\ Len(pool) = pop_size + 1
    /\ pool[pop_size] /\ pool[pop_size + 1]
    /\ Cardinality({ j \in 1 .. pop_size - 1 : pool[j] }) % 2 = 0

\* C22: after a successful next_generation the number of members is pop_size
\* or pop_size + 1, however many calls came before; pop_size + 1 arises only
\* from a last iteration that was a crossover started with one slot left.
C22_AtMostOneMemberExtra ==
    /\ (last_op = "next_generation" /\ last_result = "ok")
          => /\ Len(members) \in {pop_size, pop_size + 1}
             /\ Len(members) = pop_size + 1 => Len(params) > 1
    /\ Len(members) > 0
          => \A pool \in PoolKinds :
                /\ Len(pool) \in {pop_size, pop_size + 1}
                /\ Len(pool) = pop_size + 1 => EndsWithCrossover(pool)

\* a population of pop_size + 1 members after a next_generation, the next
\* next_generation of which can again end with pop_size + 1 or with pop_size
C22_Witness ==
    /\ last_op = "next_generation" /\ last_result = "ok"
    /\ Len(members) = pop_size + 1
    /\ \E pool \in PoolKinds : Len(pool) = pop_size + 1
    /\ \E pool \in PoolKinds : Len(pool) = pop_size

\* the iterations of the loop, were next_generation called in the current
\* state with p_crossover = 1 and the given p_mutation
IterationsAtCertainCrossover(p_mutation) ==
    LoopIterations(members, params, 100, p_mutation)

\* C23: with exactly one parameter next_generation performs no crossover,
\* also with p_crossover = 1: every iteration appends one vector, made by
\* mutate_params from the one member chosen, and the call ends with exactly
\* pop_size members.
C23_NoCrossoverWithOneParameter ==
    (Len(params) = 1 /\ Len(members) > 0)
        => /\ \A p_mutation \in {0, 100} :
                /\ IterationsAtCertainCrossover(p_mutation) # {}
                /\ \A it \in IterationsAtCertainCrossover(p_mutation) :
                      /\ it.mate = 0
                      /\ Len(it.vecs) = 1
                      /\ Len(members[it.chosen].params) = 1
                      /\ it.vecs[1] \in mutate_params(members[it.chosen].params,
                                                     params, p_mutation)
                /\ LET pools == NewParamVals(members, params, pop_size, 100,
                                             p_mutation)
                   IN  /\ pools # {}
                       /\ \A pool \in pools : Len(pool) = pop_size
           /\ (last_op = "next_generation" /\ last_result = "ok")
                => Len(members) = pop_size

\* after a next_generation over one parameter whose mutation can change the
\* value, with members of different values
C23_Witness ==
    /\ last_op = "next_generation" /\ last_result = "ok"
    /\ Len(params) = 1 /\ Len(members) = pop_size
    /\ \E it \in IterationsAtCertainCrossover(100) :
          it.vecs[1] # members[it.chosen].params
    /\ \E m, n \in 1 .. Len(members) : members[m].params # members[n].params

\* C24: on an initialized population of at least two members of positive
\* fitness, with fair draws and an objective function that returns, every
\* next_generation call comes to an end: the loop runs at most pop_size
\* iterations and the resampling of the mate ends.
C24_NextGenerationEnds ==
    /\ [](call.fn = "next_generation" => call.iterations <= pop_size)
    /\ (call.fn = "next_generation") ~> call.done

\* the members a successful next_generation called in the current state with
\* p_mutation = 0 and the given p_crossover can commit, one by one: the
\* vectors an iteration appends, evaluated and made members
MembersWithoutMutation(p_crossover) ==
    UNION { { NewMembers(SequentialResults(it.vecs), 1 - epoch)[j] :
              j \in 1 .. Len(it.vecs) } :
            it \in LoopIterations(members, params, p_crossover, 0) }

\* C25: with p_mutation = 0 a successful next_generation introduces no new
\* value: every new member has at every position the value some member of the
\* previous generation has at that position; with p_crossover = 0 as well,
\* every new member has the whole vector of some previous member.
C25_NoNewValuesWithoutMutation ==
    Len(members) > 0
        => /\ \A new \in MembersWithoutMutation(50) :
                /\ Len(new.params) = Len(params)
                /\ \A i \in 1 .. Len(new.params) :
                      \E m \in 1 .. Len(members) :
                         new.params[i] = members[m].params[i]
           /\ \A new \in MembersWithoutMutation(0) :
                \E m \in 1 .. Len(members) : new.params = members[m].params

\* after a next_generation, a population the crossover of which can make a
\* vector no member has, while without crossover it cannot
C25_Witness ==
    /\ last_op = "next_generation" /\ last_result = "ok"
    /\ Len(members) > 0
    /\ \E new \in MembersWithoutMutation(50) :
          \A m \in 1 .. Len(members) : new.params # members[m].params
    /\ MembersWithoutMutation(0) # {}

====
